---- MODULE Spec2Model ----
(***************************************************************************)
(* Price-axis label rendering of unity-lightweight-charts:                 *)
(*   - the canvas helpers (clearRect, clearRectWithGradient, drawRoundRect,*)
(*     drawRoundRectWithBorder, drawDragHandle, drawCloseButton,           *)
(*     fillRectInnerBorder), acting on a CanvasRenderingContext2D;         *)
(*   - PriceAxisViewRenderer (setData, height, draw, _calculateGeometry).  *)
(*                                                                         *)
(* A function that draws is the sequence of the calls and property writes  *)
(* it makes on the context; each entry carries the function that makes it  *)
(* (`fn`) and the layer of draw it belongs to (`layer`).  The 2D context   *)
(* is a record: its style properties, its save stack and the calls of the  *)
(* last operation (`ops`); Run gives the context after a sequence of calls.*)
(*                                                                         *)
(* Numbers.  Pixel ratios are the fractions n / RatioDen.  Every length    *)
(* handed to the context is kept in units of 1/Unit pixel, Unit = 2 *      *)
(* RatioDen, so that borderWidth / 2, height / 2, 2 * horizontalPixelRatio *)
(* and the lineWidth 1.5 are all integers.  Values that are divided by a   *)
(* pixel ratio (the media-space y coordinates) are fractions               *)
(* [num, den].                                                             *)
(***************************************************************************)
EXTENDS Integers, Sequences, FiniteSets

VARIABLES
    _data,        \* PriceAxisViewRenderer._data
    _commonData,  \* PriceAxisViewRenderer._commonData
    _iconColor,   \* PriceAxisViewRenderer._iconColor ("" is undefined)
    ctx,          \* the CanvasRenderingContext2D: styles, save stack, and the log
                  \* (ops) of the calls and property writes of the last operation
    call,         \* the last operation and its arguments
    result,       \* what the last operation returned
    prev          \* an earlier draw or _calculateGeometry call, or the context before
                  \* the first helper call, kept for comparison

vars == <<_data, _commonData, _iconColor, ctx, call, result, prev>>

----------------------------------------------------------------------------
(* Bounds of the model *)

\* pixel ratios are n / RatioDen
RatioDen == 2
\* the largest pixel-ratio numerator: ratios range over 1 .. MaxRatioNum / RatioDen
MaxRatioNum == 6
\* font sizes 0 .. MaxFontSize
MaxFontSize == 6
\* padding values 0 .. MaxPadding
MaxPadding == 1
\* anchor coordinates -MaxCoord .. MaxCoord
MaxCoord == 2
\* border sizes / border widths 0 .. MaxBorderSize
MaxBorderSize == 2

Unit == 2 * RatioDen
Px(n) == n * Unit

----------------------------------------------------------------------------
(* Program constants *)

ADD_BUTTON_SIZE == 21
DRAG_HANDLE_SIZE == 12
CLOSE_BUTTON_SIZE == 16
ICON_SIZE == 13

----------------------------------------------------------------------------
(* JavaScript arithmetic on fractions *)

Max(a, b) == IF a >= b THEN a ELSE b

\* Math.floor(num / den), den > 0
Floor(num, den) == num \div den

\* Math.ceil(num / den), den > 0
Ceil(num, den) == -((-num) \div den)

\* Math.round(num / den), den > 0: the nearest integer, halves towards +infinity
Round(num, den) == (2 * num + den) \div (2 * den)

\* JavaScript a % b: the remainder has the sign of the dividend
JsRem(a, b) == IF a >= 0 THEN a % b ELSE -((-a) % b)

----------------------------------------------------------------------------
(* The 2D context *)

\* a call of a context method, or a write of a context property ("set:<property>"),
\* made by function fn; args are its numbers, s its string
Op(fn, op, args, s) == [op |-> op, fn |-> fn, layer |-> "", args |-> args, s |-> s]

\* ctx.fillStyle = v
SetFillStyle(fn, v) == Op(fn, "set:fillStyle", <<>>, v)
\* ctx.strokeStyle = v
SetStrokeStyle(fn, v) == Op(fn, "set:strokeStyle", <<>>, v)
\* ctx.lineWidth = w
SetLineWidth(fn, w) == Op(fn, "set:lineWidth", <<w>>, "")
\* ctx.globalCompositeOperation = v
SetComposite(fn, v) == Op(fn, "set:globalCompositeOperation", <<>>, v)
\* ctx.font = v
SetFont(fn, v) == Op(fn, "set:font", <<>>, v)
\* ctx.textAlign = v
SetTextAlign(fn, v) == Op(fn, "set:textAlign", <<>>, v)
\* ctx.textBaseline = v
SetTextBaseline(fn, v) == Op(fn, "set:textBaseline", <<>>, v)

\* the calls of seq, marked as belonging to layer l of draw
InLayer(l, seq) == [i \in 1..Len(seq) |-> [seq[i] EXCEPT !.layer = l]]

\* the drawing state that save pushes and restore pops
Style(c) ==
    [fillStyle |-> c.fillStyle, strokeStyle |-> c.strokeStyle,
     lineWidth |-> c.lineWidth,
     globalCompositeOperation |-> c.globalCompositeOperation,
     font |-> c.font, textAlign |-> c.textAlign, textBaseline |-> c.textBaseline]

\* the context after one call or property write.  The canvas ignores a fillStyle or
\* strokeStyle that is no colour (such as '') and a lineWidth that is not positive;
\* restore with nothing saved does nothing.
Exec(c, o) ==
    CASE o.op = "save" -> [c EXCEPT !.stack = Append(@, Style(c))]
      [] o.op = "restore" ->
            IF Len(c.stack) = 0 THEN c
            ELSE LET t == c.stack[Len(c.stack)]
                 IN  [c EXCEPT !.stack = SubSeq(c.stack, 1, Len(c.stack) - 1),
                               !.fillStyle = t.fillStyle,
                               !.strokeStyle = t.strokeStyle,
                               !.lineWidth = t.lineWidth,
                               !.globalCompositeOperation = t.globalCompositeOperation,
                               !.font = t.font,
                               !.textAlign = t.textAlign,
                               !.textBaseline = t.textBaseline]
      [] o.op = "set:fillStyle" -> IF o.s = "" THEN c ELSE [c EXCEPT !.fillStyle = o.s]
      [] o.op = "set:strokeStyle" -> IF o.s = "" THEN c ELSE [c EXCEPT !.strokeStyle = o.s]
      [] o.op = "set:lineWidth" ->
            IF o.args[1] <= 0 THEN c ELSE [c EXCEPT !.lineWidth = o.args[1]]
      [] o.op = "set:globalCompositeOperation" ->
            [c EXCEPT !.globalCompositeOperation = o.s]
      [] o.op = "set:font" -> [c EXCEPT !.font = o.s]
      [] o.op = "set:textAlign" -> [c EXCEPT !.textAlign = o.s]
      [] o.op = "set:textBaseline" -> [c EXCEPT !.textBaseline = o.s]
      [] OTHER -> c

\* the context after the calls seq[lo], ..., seq[hi], in this order (the first half
\* is evaluated before the second half is entered: left is always a context)
RECURSIVE ExecRange(_, _, _, _)
ExecRange(c, seq, lo, hi) ==
    IF lo > hi THEN c
    ELSE IF lo = hi THEN Exec(c, seq[lo])
    ELSE LET mid == (lo + hi) \div 2
             left == ExecRange(c, seq, lo, mid)
         IN  IF Len(left.stack) >= 0 THEN ExecRange(left, seq, mid + 1, hi) ELSE left

\* the context after the calls of seq, which become its log
Run(c, seq) == [ExecRange(c, seq, 1, Len(seq)) EXCEPT !.ops = seq]

----------------------------------------------------------------------------
(* canvas-helpers.ts: each function is the sequence of calls it makes on ctx *)

fillRectInnerBorder(c, x, y, width, height, borderWidth) ==
    LET fn == "fillRectInnerBorder"
    IN  << Op(fn, "fillRect", <<x + borderWidth, y, width - borderWidth * 2, borderWidth>>, ""),
           Op(fn, "fillRect", <<x + borderWidth, y + height - borderWidth,
                                width - borderWidth * 2, borderWidth>>, ""),
           Op(fn, "fillRect", <<x, y, borderWidth, height>>, ""),
           Op(fn, "fillRect", <<x + width - borderWidth, y, borderWidth, height>>, "") >>

clearRect(c, x, y, w, h, clearColor) ==
    LET fn == "clearRect"
    IN  << Op(fn, "save", <<>>, ""),
           SetComposite(fn, "copy"),
           SetFillStyle(fn, clearColor),
           Op(fn, "fillRect", <<x, y, w, h>>, ""),
           Op(fn, "restore", <<>>, "") >>

changeBorderRadius(borderRadius, offset) ==
    [i \in 1..4 |-> IF borderRadius[i] = 0 THEN borderRadius[i]
                    ELSE borderRadius[i] + offset]

\* one corner of the emulated rounded rectangle: lineTo, then arcTo unless the radius is 0
Corner(lx, ly, r, arc) ==
    LET fn == "drawRoundRect"
    IN  << Op(fn, "lineTo", <<lx, ly>>, "") >>
        \o (IF r # 0 THEN << Op(fn, "arcTo", arc \o <<r>>, "") >> ELSE << >>)

drawRoundRect(c, x, y, w, h, radii) ==
    LET fn == "drawRoundRect"
    IN  << Op(fn, "beginPath", <<>>, "") >>
        \o (IF c.roundRect
            THEN << Op(fn, "roundRect", <<x, y, w, h>> \o radii, "") >>
            ELSE Corner(x + w - radii[2], y, radii[2], <<x + w, y, x + w, y + radii[2]>>)
                 \o Corner(x + w, y + h - radii[3], radii[3],
                           <<x + w, y + h, x + w - radii[3], y + h>>)
                 \o Corner(x + radii[4], y + h, radii[4], <<x, y + h, x, y + h - radii[4]>>)
                 \o Corner(x, y + radii[1], radii[1], <<x, y, x + radii[1], y>>))

\* textColor || '#FFFFFF'
OrWhite(textColor) == IF textColor = "" THEN "#FFFFFF" ELSE textColor

drawCloseButton(c, x, y, side, backgroundColor, textColor) ==
    LET fn == "drawCloseButton"
        shift == Px(4)
    IN  << SetFillStyle(fn, backgroundColor),
           Op(fn, "fillRect", <<x, y, side, side>>, ""),
           Op(fn, "beginPath", <<>>, ""),
           Op(fn, "moveTo", <<x + shift, y + shift>>, ""),
           Op(fn, "lineTo", <<x + side - shift, y + side - shift>>, ""),
           Op(fn, "moveTo", <<x + side - shift, y + shift>>, ""),
           Op(fn, "lineTo", <<x + shift, y + side - shift>>, ""),
           SetStrokeStyle(fn, OrWhite(textColor)),
           SetLineWidth(fn, (3 * Unit) \div 2),
           Op(fn, "stroke", <<>>, "") >>

\* coords.forEach: moveTo and arc for each dot
DragDots(coords, x, y, shift) ==
    [k \in 1..(2 * Len(coords)) |->
        LET coord == coords[(k + 1) \div 2]
            px == x + shift + coord[1]
            py == y + shift + coord[2]
        IN  IF k % 2 = 1 THEN Op("drawDragHandle", "moveTo", <<px, py>>, "")
            ELSE Op("drawDragHandle", "arc", <<px, py, Px(1)>>, "")]

drawDragHandle(c, x, y, side, backgroundColor, textColor) ==
    LET fn == "drawDragHandle"
        shift == Px(4)
        height == side - shift * 2
        coords == << <<0, 0>>, <<0, height \div 2>>, <<0, height>>,
                     <<Px(4), 0>>, <<Px(4), height \div 2>>, <<Px(4), height>> >>
    IN  << SetFillStyle(fn, backgroundColor), Op(fn, "beginPath", <<>>, "") >>
        \o DragDots(coords, x, y, shift)
        \o << SetFillStyle(fn, textColor),
              Op(fn, "fill", <<>>, ""),
              SetStrokeStyle(fn, OrWhite(textColor)),
              SetLineWidth(fn, Px(1)),
              Op(fn, "stroke", <<>>, "") >>

\* the condition of the branch without border (line 160)
NoBorderPath(borderWidth, borderColor, backgroundColor) ==
    borderWidth = 0 \/ borderColor = "" \/ borderColor = backgroundColor

\* (a model variant: the drag handle and the close button are left out)
BodyFillNoAffordances(c, left, top, width, height, backgroundColor, borderWidth, outerBorderRadius, textColor, draggable, closeButton) ==
    LET fn == "drawRoundRectWithBorder"
        innerRadii == changeBorderRadius(outerBorderRadius, -borderWidth)
    IN  drawRoundRect(c, left + borderWidth, top + borderWidth,
                      width - borderWidth * 2, height - borderWidth * 2, innerRadii)
        \o << SetFillStyle(fn, backgroundColor), Op(fn, "fill", <<>>, "") >>

\* lines 175-187: the inner rectangle filled, the drag handle, the close button
BodyFill(c, left, top, width, height, backgroundColor, borderWidth, outerBorderRadius, textColor, draggable, closeButton) ==
    LET fn == "drawRoundRectWithBorder"
        dragHandleSize == IF draggable THEN Px(DRAG_HANDLE_SIZE) ELSE 0
        offsetRight == IF closeButton THEN Px(ADD_BUTTON_SIZE) + dragHandleSize + Px(1)
                       ELSE 0
        fixedWidth == IF closeButton THEN width + dragHandleSize ELSE width
        innerRadii == changeBorderRadius(outerBorderRadius, -borderWidth)
    IN  drawRoundRect(c, left + borderWidth - offsetRight, top + borderWidth,
                      fixedWidth - borderWidth * 2, height - borderWidth * 2, innerRadii)
        \o << SetFillStyle(fn, backgroundColor), Op(fn, "fill", <<>>, "") >>
        \o (IF draggable
            THEN drawDragHandle(c, left + borderWidth - offsetRight, top, height,
                                backgroundColor, textColor)
            ELSE << >>)
        \o (IF closeButton
            THEN drawCloseButton(c, left + fixedWidth - height - offsetRight, top, height,
                                 backgroundColor, textColor)
            ELSE << >>)

\* lines 190-195: the border stroked
BorderStroke(borderWidth, borderColor) ==
    LET fn == "drawRoundRectWithBorder"
    IN  IF borderColor # "transparent"
        THEN << SetLineWidth(fn, borderWidth),
                SetStrokeStyle(fn, borderColor),
                Op(fn, "closePath", <<>>, ""),
                Op(fn, "stroke", <<>>, "") >>
        ELSE << >>

\* (a model variant: the branch without border returns without ctx.restore())
EarlyReturnNoRestore(c, left, top, width, height, backgroundColor, outerBorderRadius) ==
    drawRoundRect(c, left, top, width, height, outerBorderRadius)
    \o << SetFillStyle("drawRoundRectWithBorder", backgroundColor),
          Op("drawRoundRectWithBorder", "fill", <<>>, "") >>

\* lines 161-165: the outer rectangle filled, the state restored
EarlyReturn(c, left, top, width, height, backgroundColor, outerBorderRadius) ==
    drawRoundRect(c, left, top, width, height, outerBorderRadius)
    \o << SetFillStyle("drawRoundRectWithBorder", backgroundColor),
          Op("drawRoundRectWithBorder", "fill", <<>>, ""),
          Op("drawRoundRectWithBorder", "restore", <<>>, "") >>

drawRoundRectWithBorder(c, left, top, width, height, backgroundColor, borderWidth, outerBorderRadius, borderColor, textColor, draggable, closeButton, iconColor) ==
    LET fn == "drawRoundRectWithBorder"
        halfBorderWidth == borderWidth \div 2
        radii == changeBorderRadius(outerBorderRadius, -halfBorderWidth)
    IN  << Op(fn, "save", <<>>, "") >>
        \o (IF NoBorderPath(borderWidth, borderColor, backgroundColor)
            THEN EarlyReturn(c, left, top, width, height, backgroundColor,
                             outerBorderRadius)
            ELSE drawRoundRect(c, left + halfBorderWidth, top + halfBorderWidth,
                               width - borderWidth, height - borderWidth, radii)
                 \o (IF backgroundColor # "transparent"
                     THEN BodyFill(c, left, top, width, height, backgroundColor,
                                   borderWidth, outerBorderRadius, textColor, draggable,
                                   closeButton)
                     ELSE << >>)
                 \o BorderStroke(borderWidth, borderColor)
                 \o << Op(fn, "restore", <<>>, "") >>)

\* the gradient object is the fill style "CanvasGradient"
clearRectWithGradient(c, x, y, w, h, topColor, bottomColor) ==
    LET fn == "clearRectWithGradient"
    IN  << Op(fn, "save", <<>>, ""),
           SetComposite(fn, "copy"),
           Op(fn, "createLinearGradient", <<0, 0, 0, h>>, ""),
           Op(fn, "addColorStop", <<0>>, topColor),
           Op(fn, "addColorStop", <<1>>, bottomColor),
           SetFillStyle(fn, "CanvasGradient"),
           Op(fn, "fillRect", <<x, y, w, h>>, ""),
           Op(fn, "restore", <<>>, "") >>

----------------------------------------------------------------------------
(* Collaborators of PriceAxisViewRenderer *)

\* an optional number: <<>> is undefined, <<v>> is v;  a ?? b
OrElse(a, b) == IF a = <<>> THEN b ELSE a[1]

\* textWidthCache.measureText(ctx, text): a width in logical pixels, as a fraction
\* (5.5 pixels for each character)
measureText(text) == [num |-> 11 * Len(text), den |-> 2]

\* textWidthCache.yMidCorrection(ctx, text)
yMidCorrection(text) == 0

----------------------------------------------------------------------------
(* PriceAxisViewRenderer *)

\* (a model variant: the parity of the total height is left as rounded)
TotalHeightBitmapNoParity(totalHeight, tickHeightBitmap, verticalPixelRatio) ==
    Round(totalHeight * verticalPixelRatio, RatioDen)

\* lines 411-414: the total height in bitmap pixels, of the parity of the tick height
TotalHeightBitmap(totalHeight, tickHeightBitmap, verticalPixelRatio) ==
    LET totalHeightBitmap == Round(totalHeight * verticalPixelRatio, RatioDen)
    IN  IF JsRem(totalHeightBitmap, 2) # JsRem(tickHeightBitmap, 2)
        THEN totalHeightBitmap + 1
        ELSE totalHeightBitmap

\* (a model variant: the right-aligned text offset without the second border term)
XTextMirrored(alignRight, xInside, tickSize, paddingInner, horzBorder) ==
    IF alignRight THEN xInside - tickSize - paddingInner
    ELSE xInside + tickSize + paddingInner

\* lines 442 and 451: the x offset of the text in media space
XText(alignRight, xInside, tickSize, paddingInner, horzBorder) ==
    IF alignRight THEN xInside - tickSize - paddingInner - horzBorder
    ELSE xInside + tickSize + paddingInner

\* (a model variant: the top edge found without the half tick height)
YTopBitmapNoTick(yMidBitmap, tickHeightBitmap, totalHeightBitmap) ==
    Floor(2 * yMidBitmap - totalHeightBitmap, 2)

\* lines 421-423: Math.floor(yMidBitmap + tickHeightBitmap / 2 - totalHeightBitmap / 2)
YTopBitmap(yMidBitmap, tickHeightBitmap, totalHeightBitmap) ==
    Floor(2 * yMidBitmap + tickHeightBitmap - totalHeightBitmap, 2)

\* the pixel ratios of scope are numerators over RatioDen
_calculateGeometry(data, commonData, iconColorField, scope, rendererOptions, align, closeButton) ==
    LET horizontalPixelRatio == scope.horizontalPixelRatio
        verticalPixelRatio == scope.verticalPixelRatio
        tickSize == IF data.tickVisible \/ ~data.moveTextToInvisibleTick
                    THEN rendererOptions.tickLength ELSE 0
        horzBorder == IF data.separatorVisible THEN rendererOptions.borderSize ELSE 0
        paddingTop == rendererOptions.paddingTop + commonData.additionalPaddingTop
        paddingBottom == rendererOptions.paddingBottom + commonData.additionalPaddingBottom
        paddingInner == rendererOptions.paddingInner
        paddingOuter == rendererOptions.paddingOuter
        text == data.text
        actualTextHeight == rendererOptions.fontSize
        textMidCorrection == yMidCorrection(text)
        textWidth == IF iconColorField # "" THEN ICON_SIZE
                     ELSE Ceil(measureText(text).num, measureText(text).den)
        totalHeight == actualTextHeight + paddingTop + paddingBottom
        totalWidth == rendererOptions.borderSize + paddingInner + paddingOuter + textWidth
                      + tickSize + (IF closeButton THEN CLOSE_BUTTON_SIZE ELSE 0)
        tickHeightBitmap == Max(1, Floor(verticalPixelRatio, RatioDen))
        totalHeightBitmap == TotalHeightBitmap(totalHeight, tickHeightBitmap, verticalPixelRatio)
        horzBorderBitmap == IF horzBorder > 0
                            THEN Max(1, Floor(horzBorder * horizontalPixelRatio, RatioDen))
                            ELSE 0
        totalWidthBitmap == Round(totalWidth * horizontalPixelRatio, RatioDen)
        tickSizeBitmap == Round(tickSize * horizontalPixelRatio, RatioDen)
        yMid == OrElse(commonData.fixedCoordinate, commonData.coordinate)
        yMidBitmap == Round(yMid * verticalPixelRatio, RatioDen)
                      - Floor(verticalPixelRatio, 2 * RatioDen)
        yTopBitmap == YTopBitmap(yMidBitmap, tickHeightBitmap, totalHeightBitmap)
        yBottomBitmap == yTopBitmap + totalHeightBitmap
        alignRight == align = "right"
        xInside == IF alignRight THEN scope.mediaSize.width - horzBorder ELSE horzBorder
        xInsideBitmap == IF alignRight THEN scope.bitmapSize.width - horzBorderBitmap
                         ELSE horzBorderBitmap
        xOutsideBitmap == IF alignRight THEN xInsideBitmap - totalWidthBitmap
                          ELSE xInsideBitmap + totalWidthBitmap
        xTickBitmap == IF alignRight THEN xInsideBitmap - tickSizeBitmap
                       ELSE xInsideBitmap + tickSizeBitmap
        xText == XText(alignRight, xInside, tickSize, paddingInner, horzBorder)
    IN  [alignRight |-> alignRight,
         bitmap |-> [yTop |-> yTopBitmap,
                     yMid |-> yMidBitmap,
                     yBottom |-> yBottomBitmap,
                     totalWidth |-> totalWidthBitmap,
                     totalHeight |-> totalHeightBitmap,
                     radius |-> [num |-> 2 * horizontalPixelRatio, den |-> RatioDen],
                     horzBorder |-> horzBorderBitmap,
                     xOutside |-> xOutsideBitmap,
                     xInside |-> xInsideBitmap,
                     xTick |-> xTickBitmap,
                     tickHeight |-> tickHeightBitmap,
                     right |-> scope.bitmapSize.width],
         media |-> [yTop |-> [num |-> yTopBitmap * RatioDen, den |-> verticalPixelRatio],
                    yBottom |-> [num |-> yBottomBitmap * RatioDen, den |-> verticalPixelRatio],
                    xText |-> xText,
                    textMidCorrection |-> textMidCorrection]]

\* height(rendererOptions, useSecondLine)
height(data, rendererOptions) ==
    IF ~data.visible THEN 0
    ELSE rendererOptions.fontSize + rendererOptions.paddingTop + rendererOptions.paddingBottom

\* the guard of draw: nothing is drawn
DrawSkipped(data) == ~data.visible \/ Len(data.text) = 0

\* a fraction whose denominator divides Unit, in units of 1/Unit pixel
Scaled(q) == (q.num * Unit) \div q.den

\* drawLabelBody of draw (lines 305-339)
drawLabelBody(c, geom, labelBackgroundColor, labelBorderColor, textColor, draggable, closeButton, iconColor) ==
    LET gb == geom.bitmap
        r == Scaled(gb.radius)
    IN  IF geom.alignRight
        THEN drawRoundRectWithBorder(c, Px(gb.xOutside), Px(gb.yTop), Px(gb.totalWidth),
                 Px(gb.totalHeight), labelBackgroundColor, Px(gb.horzBorder),
                 <<r, 0, 0, r>>, labelBorderColor, textColor, draggable, closeButton,
                 iconColor)
        ELSE drawRoundRectWithBorder(c, Px(gb.xInside), Px(gb.yTop), Px(gb.totalWidth),
                 Px(gb.totalHeight), labelBackgroundColor, Px(gb.horzBorder),
                 <<0, r, r, 0>>, labelBorderColor, textColor, draggable, closeButton,
                 iconColor)

\* lines 344-348: the tick
DrawTick(geom, data, textColor) ==
    LET gb == geom.bitmap
    IN  IF data.tickVisible
        THEN << SetFillStyle("draw", textColor),
                Op("draw", "fillRect",
                   <<Px(gb.xInside), Px(gb.yMid), Px(gb.xTick - gb.xInside),
                     Px(gb.tickHeight)>>, "") >>
        ELSE << >>

\* lines 352-361: the separator
DrawSeparator(geom, data, rendererOptions) ==
    LET gb == geom.bitmap
    IN  IF data.borderVisible
        THEN << SetFillStyle("draw", rendererOptions.paneBackgroundColor),
                Op("draw", "fillRect",
                   <<Px(IF geom.alignRight THEN gb.right - gb.horzBorder ELSE 0),
                     Px(gb.yTop), Px(gb.horzBorder), Px(gb.yBottom - gb.yTop)>>, "") >>
        ELSE << >>

\* (a model variant: the tick is filled before the label background)
DrawBitmapTickFirst(c, geom, data, commonData, rendererOptions, draggable, closeButton, iconColor) ==
    LET textColor == data.color
        backgroundColor == commonData.background
    IN  InLayer("setup", << SetFont("draw", rendererOptions.font) >>)
        \o InLayer("tick", DrawTick(geom, data, textColor))
        \o InLayer("background",
                   drawLabelBody(c, geom, backgroundColor, "transparent", textColor,
                                 draggable, closeButton, iconColor))
        \o InLayer("border",
                   drawLabelBody(c, geom, "transparent", backgroundColor, textColor,
                                 draggable, closeButton, iconColor))
        \o InLayer("separator", DrawSeparator(geom, data, rendererOptions))

\* the callback given to useBitmapCoordinateSpace (lines 299-364)
DrawBitmap(c, geom, data, commonData, rendererOptions, draggable, closeButton, iconColor) ==
    LET textColor == data.color
        backgroundColor == commonData.background
    IN  InLayer("setup", << SetFont("draw", rendererOptions.font) >>)
        \o InLayer("background",
                   drawLabelBody(c, geom, backgroundColor, "transparent", textColor,
                                 draggable, closeButton, iconColor))
        \o InLayer("tick", DrawTick(geom, data, textColor))
        \o InLayer("border",
                   drawLabelBody(c, geom, "transparent", backgroundColor, textColor,
                                 draggable, closeButton, iconColor))
        \o InLayer("separator", DrawSeparator(geom, data, rendererOptions))

\* the callback given to useMediaCoordinateSpace (lines 366-383); the y of fillText
\* is the fraction args[2] / args[3]
DrawMedia(c, geom, data, rendererOptions, closeButton, iconColor) ==
    LET gm == geom.media
        textColor == data.color
        xOffset == IF data.moveTextToInvisibleTick /\ closeButton
                   THEN gm.xText - CLOSE_BUTTON_SIZE - ADD_BUTTON_SIZE
                   ELSE gm.xText
        \* (gm.yTop + gm.yBottom) / 2 + gm.textMidCorrection - 1
        yNum == gm.yTop.num + gm.yBottom.num + 2 * gm.yTop.den * (gm.textMidCorrection - 1)
        yDen == 2 * gm.yTop.den
    IN  InLayer("text",
            IF iconColor # ""
            THEN << SetFont("draw", "13px icomoon"),
                    SetTextAlign("draw", "left"),
                    SetTextBaseline("draw", "middle"),
                    SetFillStyle("draw", iconColor),
                    Op("draw", "fillText", <<Px(xOffset - ICON_SIZE), yNum, yDen>>, "\\ue966") >>
            ELSE << SetFont("draw", rendererOptions.font),
                    SetTextAlign("draw", IF geom.alignRight THEN "right" ELSE "left"),
                    SetTextBaseline("draw", "middle"),
                    SetFillStyle("draw", textColor),
                    Op("draw", "fillText", <<Px(xOffset), yNum, yDen>>, data.text) >>)

\* (a model variant: _calculateGeometry reads the field before draw assigns it)
IconColorReadStale(before, after) == before

\* the this._iconColor that _calculateGeometry reads (line 404) in a draw call that
\* found the field `before` and assigned it `after` (line 295, ahead of line 302)
IconColorRead(before, after) == after

----------------------------------------------------------------------------
(* States and inputs *)

NoResult == [kind |-> "none"]
NoPrev == [kind |-> "none"]

\* a context as the browser creates it; roundRect: whether ctx.roundRect exists
NewContext(roundRect, fillStyle) ==
    [fillStyle |-> fillStyle, strokeStyle |-> "#000000", lineWidth |-> Px(1),
     globalCompositeOperation |-> "source-over", font |-> "10px sans-serif",
     textAlign |-> "start", textBaseline |-> "alphabetic",
     stack |-> <<>>, roundRect |-> roundRect, ops |-> <<>>]

\* the log starts anew with each operation
Fresh(c) == [c EXCEPT !.ops = <<>>]

\* a rendering scope: the bitmap is the media size times the horizontal pixel ratio
Scope(mediaWidth, hRatio, vRatio) ==
    [mediaSize |-> [width |-> mediaWidth],
     bitmapSize |-> [width |-> (mediaWidth * hRatio) \div RatioDen],
     horizontalPixelRatio |-> hRatio, verticalPixelRatio |-> vRatio]

Ratios == RatioDen .. MaxRatioNum

Options(fontSizes, paddingTops, paddingBottoms, tickLengths, borderSizes) ==
    [fontSize : fontSizes, paddingTop : paddingTops, paddingBottom : paddingBottoms,
     paddingInner : {3}, paddingOuter : {4}, tickLength : tickLengths,
     borderSize : borderSizes, font : {"12px sans-serif"},
     paneBackgroundColor : {"#ffffff"}]

Data(visibles, texts, flags, moves) ==
    [visible : visibles, text : texts, tickVisible : flags, borderVisible : flags,
     separatorVisible : flags, moveTextToInvisibleTick : moves, color : {"#eeeeee"}]

CommonData(backgrounds, coordinates, fixedCoordinates, additionalTops) ==
    [background : backgrounds, coordinate : coordinates,
     fixedCoordinate : fixedCoordinates,
     additionalPaddingTop : additionalTops, additionalPaddingBottom : {0}]

----------------------------------------------------------------------------
(* Operations of PriceAxisViewRenderer *)

\* setData(data, commonData), lines 268-271
SetData(data, commonData) ==
    /\ _data' = data
    /\ _commonData' = commonData
    /\ call' = [fn |-> "setData"]
    /\ result' = NoResult
    /\ ctx' = Fresh(ctx)
    /\ UNCHANGED <<_iconColor, prev>>

\* height(rendererOptions, useSecondLine), lines 273-279
Height(rendererOptions) ==
    /\ result' = [kind |-> "height", value |-> height(_data, rendererOptions)]
    /\ call' = [fn |-> "height", rendererOptions |-> rendererOptions]
    /\ ctx' = Fresh(ctx)
    /\ UNCHANGED <<_data, _commonData, _iconColor, prev>>

\* draw(target, rendererOptions, textWidthCache, align, draggable, closeButton, iconColor),
\* lines 282-384
Draw(scope, rendererOptions, align, draggable, closeButton, iconColor) ==
    /\ call' = [fn |-> "draw", scope |-> scope, rendererOptions |-> rendererOptions,
                align |-> align, draggable |-> draggable, closeButton |-> closeButton,
                iconColor |-> iconColor]
    /\ IF DrawSkipped(_data)
       THEN /\ result' = NoResult
            /\ ctx' = Fresh(ctx)
            /\ UNCHANGED _iconColor
       ELSE /\ _iconColor' = iconColor
            /\ LET geom == _calculateGeometry(_data, _commonData,
                                              IconColorRead(_iconColor, _iconColor'),
                                              scope, rendererOptions, align, closeButton)
               IN  /\ ctx' = Run(ctx,
                                  DrawBitmap(ctx, geom, _data, _commonData, rendererOptions,
                                             draggable, closeButton, iconColor)
                                  \o DrawMedia(ctx, geom, _data, rendererOptions,
                                               closeButton, iconColor))
                   /\ result' = [kind |-> "geometry", geometry |-> geom]
    /\ UNCHANGED <<_data, _commonData>>

\* what is kept of a draw call for a later comparison
DrawRecord ==
    [kind |-> "draw", call |-> call', data |-> _data', commonData |-> _commonData',
     iconColorBefore |-> _iconColor, result |-> result', ops |-> ctx'.ops]

----------------------------------------------------------------------------
(* Spec: one renderer, its data set, its height asked and its label drawn *)

SpecData == Data(BOOLEAN, {"", "1.50"}, BOOLEAN, {FALSE})
SpecCommonData == CommonData({"transparent", "#111111"}, {10}, {<<>>}, {0})
SpecOptions == Options({12}, {2}, {2}, {5}, {0, 1})
SpecScopes == {Scope(30 * RatioDen, RatioDen + 1, RatioDen + 1)}
IconColors == {"", "#ff0000"}

Init ==
    /\ _data \in SpecData
    /\ _commonData \in SpecCommonData
    /\ _iconColor = ""
    /\ ctx \in {NewContext(r, "#000000") : r \in BOOLEAN}
    /\ call = [fn |-> "constructor"]
    /\ result = NoResult
    /\ prev = NoPrev

DoSetData == \E d \in SpecData, cd \in SpecCommonData : SetData(d, cd)

DoHeight == \E o \in SpecOptions : Height(o)

DoDraw ==
    \E sc \in SpecScopes, o \in SpecOptions, a \in {"left", "right"},
       dr \in BOOLEAN, cb \in BOOLEAN, ic \in IconColors :
        Draw(sc, o, a, dr, cb, ic) /\ UNCHANGED prev

Next == DoSetData \/ DoHeight \/ DoDraw

Spec == Init /\ [][Next]_vars

----------------------------------------------------------------------------
(* SpecCanvas: the canvas helpers called in any order on one context.  prev keeps *)
(* the context as it was before the first call.                                   *)

Colors == {"transparent", "#111111", "#222222"}
BorderColors == {"", "transparent", "#111111"}
TextColors == {"#eeeeee"}
Radii == {<<0, 0, 0, 0>>, <<Px(2), 0, 0, Px(2)>>}

InitCanvas ==
    /\ _data \in Data({TRUE}, {"1.50"}, {TRUE}, {FALSE})
    /\ _commonData \in CommonData({"#111111"}, {10}, {<<>>}, {0})
    /\ _iconColor = ""
    /\ ctx \in {NewContext(r, f) : r \in BOOLEAN, f \in {"#000000", "#abcdef"}}
    /\ call = [fn |-> "none"]
    /\ result = NoResult
    /\ prev = [kind |-> "initial", ctx |-> ctx]

ClearRect ==
    \E w \in {Px(60), Px(61)}, color \in Colors \union {""} :
        /\ ctx' = Run(ctx, clearRect(ctx, 0, 0, w, Px(20), color))
        /\ call' = [fn |-> "clearRect", w |-> w, clearColor |-> color]
        /\ UNCHANGED <<_data, _commonData, _iconColor, result, prev>>

ClearRectWithGradient ==
    \E h \in {Px(20), Px(21)}, top \in {"#111111", "#222222"} :
        /\ ctx' = Run(ctx, clearRectWithGradient(ctx, 0, 0, Px(60), h, top, "#333333"))
        /\ call' = [fn |-> "clearRectWithGradient", h |-> h, topColor |-> top]
        /\ UNCHANGED <<_data, _commonData, _iconColor, result, prev>>

FillRectInnerBorder ==
    \E b \in 0..MaxBorderSize :
        /\ ctx' = Run(ctx, fillRectInnerBorder(ctx, Px(1), Px(2), Px(60), Px(20), Px(b)))
        /\ call' = [fn |-> "fillRectInnerBorder", borderWidth |-> Px(b)]
        /\ UNCHANGED <<_data, _commonData, _iconColor, result, prev>>

DrawRoundRectWithBorder ==
    \E bg \in Colors, b \in 0..MaxBorderSize, radii \in Radii, bc \in BorderColors,
       tc \in TextColors, dr \in BOOLEAN, cb \in BOOLEAN :
        /\ ctx' = Run(ctx, drawRoundRectWithBorder(ctx, Px(10), Px(4), Px(60), Px(17), bg,
                                                   Px(b), radii, bc, tc, dr, cb, ""))
        /\ call' = [fn |-> "drawRoundRectWithBorder", backgroundColor |-> bg,
                    borderWidth |-> Px(b), outerBorderRadius |-> radii,
                    borderColor |-> bc, textColor |-> tc, draggable |-> dr,
                    closeButton |-> cb]
        /\ UNCHANGED <<_data, _commonData, _iconColor, result, prev>>

NextCanvas ==
    ClearRect \/ ClearRectWithGradient \/ FillRectInnerBorder \/ DrawRoundRectWithBorder

SpecCanvas == InitCanvas /\ [][NextCanvas]_vars

----------------------------------------------------------------------------
(* SpecGeometry, SpecMirror: _calculateGeometry applied to the inputs of the      *)
(* initial state, for both alignments; prev keeps the record of the call before.  *)

\* _calculateGeometry(scope, rendererOptions, textWidthCache, align, closeButton)
CalculateGeometry(align) ==
    /\ call.fn \in {"pending", "_calculateGeometry"}
    /\ result' = [kind |-> "geometry",
                  geometry |-> _calculateGeometry(_data, _commonData, _iconColor,
                                                  call.scope, call.rendererOptions,
                                                  align, call.closeButton)]
    /\ call' = [call EXCEPT !.fn = "_calculateGeometry", !.align = align]
    /\ prev' = IF result.kind = "geometry"
               THEN [kind |-> "geometry", align |-> call.align,
                     geometry |-> result.geometry]
               ELSE prev
    /\ UNCHANGED <<_data, _commonData, _iconColor, ctx>>

CalculateLeft == CalculateGeometry("left")
CalculateRight == CalculateGeometry("right")

NextGeometry == CalculateLeft \/ CalculateRight

Pending(scopes, options, closeButtons) ==
    [fn : {"pending"}, scope : scopes, rendererOptions : options, align : {"none"},
     closeButton : closeButtons]

\* the vertical inputs vary
InitGeometry ==
    /\ _data \in Data({TRUE}, {"1.50"}, {TRUE}, {FALSE})
    /\ _commonData \in CommonData({"#111111"}, (-MaxCoord)..MaxCoord, {<<>>, <<1>>}, {0, 3})
    /\ _iconColor = ""
    /\ ctx = NewContext(TRUE, "#000000")
    /\ call \in Pending({Scope(30 * RatioDen, RatioDen, v) : v \in Ratios},
                        Options(0..MaxFontSize, 0..MaxPadding, {0, 2}, {5}, {1}), {FALSE})
    /\ result = NoResult
    /\ prev = NoPrev

SpecGeometry == InitGeometry /\ [][NextGeometry]_vars

\* the horizontal inputs vary
InitMirror ==
    /\ _data \in Data({TRUE}, {"1.50"}, BOOLEAN, BOOLEAN)
    /\ _commonData \in CommonData({"#111111"}, {10}, {<<>>}, {0})
    /\ _iconColor \in IconColors
    /\ ctx = NewContext(TRUE, "#000000")
    /\ call \in Pending({Scope(w * RatioDen, h, RatioDen) : w \in {30, 41}, h \in Ratios},
                        Options({12}, {2}, {2}, {0, 5}, 0..MaxBorderSize), BOOLEAN)
    /\ result = NoResult
    /\ prev = NoPrev

SpecMirror == InitMirror /\ [][NextGeometry]_vars

----------------------------------------------------------------------------
(* SpecIdem: draw calls with and without icon colour; prev keeps one earlier draw *)

IdemData == Data(BOOLEAN, {"", "1.50"}, {TRUE}, {FALSE})
IdemCommonData == CommonData({"#111111"}, {10}, {<<>>}, {0})
IdemOptions == Options({12}, {2}, {2}, {5}, {1})

InitIdem ==
    /\ _data \in IdemData
    /\ _commonData \in IdemCommonData
    /\ _iconColor = ""
    /\ ctx = NewContext(TRUE, "#000000")
    /\ call = [fn |-> "constructor"]
    /\ result = NoResult
    /\ prev = NoPrev

IdemSetData == \E d \in IdemData, cd \in IdemCommonData : SetData(d, cd)

IdemDraw(a, ic) ==
    \E sc \in SpecScopes, o \in IdemOptions : Draw(sc, o, a, FALSE, FALSE, ic)

\* a draw call that is not kept
DrawOnly == \E a \in {"left", "right"}, ic \in IconColors : IdemDraw(a, ic) /\ UNCHANGED prev

\* a draw call that is kept for comparison with a later one
DrawKept == \E a \in {"left", "right"}, ic \in IconColors : IdemDraw(a, ic) /\ prev' = DrawRecord

NextIdem == IdemSetData \/ DrawOnly \/ DrawKept

SpecIdem == InitIdem /\ [][NextIdem]_vars

----------------------------------------------------------------------------
(* Properties of draw and height (Spec) *)

\* the calls that paint on the surface
PaintOps == {"fill", "stroke", "fillRect", "fillText"}

\* the last operation was a draw call that passed the guard of lines 291-293
Drawn == call.fn = "draw" /\ result.kind = "geometry"

\* the indices of the logged calls of the kinds `kinds` made in layer l
At(l, kinds) == {i \in DOMAIN ctx.ops : ctx.ops[i].layer = l /\ ctx.ops[i].op \in kinds}

\* the indices of the logged calls of the kinds `kinds` made by the helper fn
By(fn, kinds) == {i \in DOMAIN ctx.ops : ctx.ops[i].fn = fn /\ ctx.ops[i].op \in kinds}

\* the place of a layer in the order of the claim
Rank(l) ==
    CASE l = "setup" -> 0
      [] l = "background" -> 1
      [] l = "tick" -> 2
      [] l = "border" -> 3
      [] l = "separator" -> 4
      [] l = "text" -> 5

\* C2 (as stated): for a label that is invisible, or whose text is empty while no icon
\* colour is given, draw makes no call on the rendering surface and height returns 0.
C2_EmptyOrInvisibleIsNoOp ==
    /\ (call.fn = "draw" /\ (~_data.visible \/ (Len(_data.text) = 0 /\ call.iconColor = "")))
           => ctx.ops = <<>>
    /\ (call.fn = "height" /\ (~_data.visible \/ (Len(_data.text) = 0 /\ _iconColor = "")))
           => result.value = 0

\* C4: a draw call that passes the guard paints in the order label background, tick
\* (present exactly when the tick is visible), label border, separator, text; the text
\* is painted once and last.
C4_DrawOrder ==
    Drawn =>
        /\ \A i, j \in DOMAIN ctx.ops :
               i < j => Rank(ctx.ops[i].layer) <= Rank(ctx.ops[j].layer)
        /\ At("background", {"fill"}) # {}
        /\ (At("tick", {"fillRect"}) # {}) <=> _data.tickVisible
        /\ At("border", {"fill", "stroke"}) # {}
        /\ Cardinality(At("separator", PaintOps)) <= 1
        /\ At("text", PaintOps) = {Len(ctx.ops)}
        /\ ctx.ops[Len(ctx.ops)].op = "fillText"
        /\ \A i \in DOMAIN ctx.ops :
               ctx.ops[i].op \in PaintOps => ctx.ops[i].layer # "setup"

\* a draw call that painted in each of the five layers
C4_Witness ==
    /\ Drawn
    /\ _data.tickVisible
    /\ \E b \in At("background", {"fill"}), t \in At("tick", {"fillRect"}),
          r \in At("border", {"stroke"}), s \in At("separator", {"fillRect"}),
          x \in At("text", {"fillText"}) : b < t /\ t < r /\ r < s /\ s < x

\* C5 (as stated): a draw call that passes the guard draws the drag handle whenever
\* draggable is true and the close button whenever closeButton is true, whatever the
\* separator visibility and border size.
C5_AffordancesAlwaysDrawn ==
    Drawn =>
        /\ call.draggable => By("drawDragHandle", PaintOps) # {}
        /\ call.closeButton => By("drawCloseButton", PaintOps) # {}

\* C6 (as stated): the separator is filled exactly when separatorVisible is true, at
\* the axis edge (x = 0 left, x = right - horzBorder right), from yTop, horzBorder
\* wide and yBottom - yTop high, and the filled rectangle never has width zero.
C6_SeparatorIffVisible ==
    Drawn =>
        LET gb == result.geometry.bitmap
        IN  /\ (At("separator", {"fillRect"}) # {}) <=> _data.separatorVisible
            /\ \A i \in At("separator", {"fillRect"}) :
                   /\ ctx.ops[i].args =
                          << Px(IF call.align = "right" THEN gb.right - gb.horzBorder ELSE 0),
                             Px(gb.yTop), Px(gb.horzBorder), Px(gb.yBottom - gb.yTop) >>
                   /\ ctx.ops[i].args[3] # 0

----------------------------------------------------------------------------
(* Properties of the canvas helpers (SpecCanvas) *)

\* drawRoundRectWithBorder was called without border width, with the border colour
\* of the background, or with a transparent border
C3_Case ==
    /\ call.fn = "drawRoundRectWithBorder"
    /\ \/ call.borderWidth = 0
       \/ call.borderColor = call.backgroundColor
       \/ call.borderColor = "transparent"

\* the call went past the early return of line 160 and into the body fill of line 174
C3_BodyReached ==
    /\ ~NoBorderPath(call.borderWidth, call.borderColor, call.backgroundColor)
    /\ call.backgroundColor # "transparent"

\* C3 (amended): in the cases of C3_Case drawRoundRectWithBorder itself fills exactly
\* once (the background) and never strokes the border; the only other paint calls are
\* one fill and one stroke of the drag handle and one fillRect and one stroke of the
\* close button, made exactly when the call gets past the early return (border width
\* not 0, border 'transparent', background not 'transparent') with draggable,
\* respectively closeButton, true.
C3_OneBackgroundFillNoBorderStroke ==
    C3_Case =>
        /\ Cardinality(By("drawRoundRectWithBorder", {"fill", "fillRect"})) = 1
        /\ By("drawRoundRectWithBorder", {"stroke"}) = {}
        /\ Cardinality(By("drawDragHandle", {"fill"}))
               = (IF C3_BodyReached /\ call.draggable THEN 1 ELSE 0)
        /\ Cardinality(By("drawDragHandle", {"stroke"}))
               = (IF C3_BodyReached /\ call.draggable THEN 1 ELSE 0)
        /\ Cardinality(By("drawCloseButton", {"fillRect"}))
               = (IF C3_BodyReached /\ call.closeButton THEN 1 ELSE 0)
        /\ Cardinality(By("drawCloseButton", {"stroke"}))
               = (IF C3_BodyReached /\ call.closeButton THEN 1 ELSE 0)
        /\ \A i \in DOMAIN ctx.ops :
               ctx.ops[i].op \in PaintOps =>
                   ctx.ops[i].fn \in {"drawRoundRectWithBorder", "drawDragHandle",
                                      "drawCloseButton"}

\* a call with a transparent border that drew the drag handle and the close button
C3_Witness ==
    /\ C3_Case
    /\ call.borderColor = "transparent"
    /\ call.draggable /\ call.closeButton
    /\ By("drawDragHandle", {"fill"}) # {}
    /\ By("drawCloseButton", {"stroke"}) # {}
    /\ By("drawRoundRectWithBorder", {"fill"}) # {}

\* C3 (as stated): in the cases of C3_Case the call makes exactly one fill or fillRect
\* and no stroke at all, whatever draggable and closeButton are.
C3_ExactlyOneFillNoStroke ==
    C3_Case =>
        /\ Cardinality({i \in DOMAIN ctx.ops : ctx.ops[i].op \in {"fill", "fillRect"}}) = 1
        /\ {i \in DOMAIN ctx.ops : ctx.ops[i].op = "stroke"} = {}

\* the writes of the four style properties of C9
StyleWrites ==
    {"set:globalCompositeOperation", "set:fillStyle", "set:strokeStyle", "set:lineWidth"}

\* C9: a call of clearRect, clearRectWithGradient or drawRoundRectWithBorder saves
\* once, first, and restores once, last, with every style write in between; after any
\* sequence of the helper calls the save stack and the four style properties are
\* those of the context before the sequence.
C9_SaveRestoreBalanced ==
    /\ ctx.stack = prev.ctx.stack
    /\ ctx.fillStyle = prev.ctx.fillStyle
    /\ ctx.strokeStyle = prev.ctx.strokeStyle
    /\ ctx.lineWidth = prev.ctx.lineWidth
    /\ ctx.globalCompositeOperation = prev.ctx.globalCompositeOperation
    /\ call.fn \in {"clearRect", "clearRectWithGradient", "drawRoundRectWithBorder"} =>
           /\ {i \in DOMAIN ctx.ops : ctx.ops[i].op = "save"} = {1}
           /\ {i \in DOMAIN ctx.ops : ctx.ops[i].op = "restore"} = {Len(ctx.ops)}
           /\ Len(ctx.ops) >= 2
           /\ \A i \in DOMAIN ctx.ops :
                  ctx.ops[i].op \in StyleWrites => 1 < i /\ i < Len(ctx.ops)

\* the early return of drawRoundRectWithBorder, after a write of a fill style that is
\* not the one of the context
C9_Witness ==
    /\ call.fn = "drawRoundRectWithBorder"
    /\ call.borderWidth = 0
    /\ call.draggable /\ call.closeButton
    /\ \E i \in DOMAIN ctx.ops :
           ctx.ops[i].op = "set:fillStyle" /\ ctx.ops[i].s \notin {"", ctx.fillStyle}

----------------------------------------------------------------------------
(* Properties of _calculateGeometry (SpecGeometry, SpecMirror) *)

\* the logical total height of the label of the last call
LogicalTotalHeight ==
    call.rendererOptions.fontSize + call.rendererOptions.paddingTop
    + call.rendererOptions.paddingBottom
    + _commonData.additionalPaddingTop + _commonData.additionalPaddingBottom

\* round(totalHeight * r) of the last call
RoundedTotalHeight == Round(LogicalTotalHeight * call.scope.verticalPixelRatio, RatioDen)

\* max(1, floor(r)) of the last call
ExpectedTickHeight == Max(1, Floor(call.scope.verticalPixelRatio, RatioDen))

\* C1: in every geometry record bitmap.totalHeight and bitmap.tickHeight have the
\* same parity; the total height is round(totalHeight * r), plus exactly 1 when that
\* and max(1, floor(r)) differ in parity.
C1_ParityMatches ==
    result.kind = "geometry" =>
        LET gb == result.geometry.bitmap
        IN  /\ gb.totalHeight % 2 = gb.tickHeight % 2
            /\ gb.tickHeight = ExpectedTickHeight
            /\ gb.totalHeight =
                   IF RoundedTotalHeight % 2 # ExpectedTickHeight % 2
                   THEN RoundedTotalHeight + 1
                   ELSE RoundedTotalHeight

\* a record at a fractional pixel ratio whose rounded height had the other parity
C1_Witness ==
    /\ result.kind = "geometry"
    /\ call.scope.verticalPixelRatio % RatioDen # 0
    /\ RoundedTotalHeight % 2 # ExpectedTickHeight % 2
    /\ result.geometry.bitmap.totalHeight = RoundedTotalHeight + 1

\* C10: in every geometry record yBottom - yTop = totalHeight and the tick band is
\* centred in the label body: yMid - yTop = yBottom - (yMid + tickHeight)
\* = (totalHeight - tickHeight) / 2, an integer, not negative when
\* totalHeight >= tickHeight; the floor of yTop drops no fraction.
C10_TickCentred ==
    result.kind = "geometry" =>
        LET gb == result.geometry.bitmap
        IN  /\ gb.yBottom - gb.yTop = gb.totalHeight
            /\ gb.yMid - gb.yTop = gb.yBottom - (gb.yMid + gb.tickHeight)
            /\ 2 * (gb.yMid - gb.yTop) = gb.totalHeight - gb.tickHeight
            /\ gb.totalHeight >= gb.tickHeight => gb.yMid - gb.yTop >= 0
            /\ (2 * gb.yMid + gb.tickHeight - gb.totalHeight) % 2 = 0

\* a record with a negative anchor, a fractional pixel ratio and a tick band strictly
\* inside the label body
C10_Witness ==
    /\ result.kind = "geometry"
    /\ _commonData.coordinate < 0 /\ _commonData.fixedCoordinate = <<>>
    /\ call.scope.verticalPixelRatio % RatioDen # 0
    /\ result.geometry.bitmap.yMid < 0
    /\ result.geometry.bitmap.yMid - result.geometry.bitmap.yTop > 0
    /\ result.geometry.bitmap.totalHeight # RoundedTotalHeight

\* the last two calls had the same inputs and the two alignments
MirrorPair ==
    /\ result.kind = "geometry" /\ prev.kind = "geometry"
    /\ prev.align # call.align

\* the separator thickness that _calculateGeometry reserves (line 395)
EffectiveHorzBorder ==
    IF _data.separatorVisible THEN call.rendererOptions.borderSize ELSE 0

\* the bitmap fields xInside, xOutside, xTick of the two records are reflections
BitmapMirrored ==
    LET a == prev.geometry.bitmap
        b == result.geometry.bitmap
        w == call.scope.bitmapSize.width
    IN  /\ a.xInside + b.xInside = w
        /\ a.xOutside + b.xOutside = w
        /\ a.xTick + b.xTick = w

\* the media xText of the two records are reflections
TextMirrored ==
    prev.geometry.media.xText + result.geometry.media.xText = call.scope.mediaSize.width

\* C7 (amended): for the two alignments of the same inputs the bitmap fields xInside,
\* xOutside and xTick are mirror images for every surface width; the media xText of
\* the right-aligned record is the reflection of the left one less the reserved
\* separator thickness, so the records are mirror images exactly when that is 0.
C7_MirrorIffNoSeparator ==
    MirrorPair =>
        /\ BitmapMirrored
        /\ prev.geometry.media.xText + result.geometry.media.xText
               = call.scope.mediaSize.width - EffectiveHorzBorder
        /\ TextMirrored <=> EffectiveHorzBorder = 0

\* a pair of records with a separator, whose texts are no mirror images
C7_Witness ==
    /\ MirrorPair
    /\ EffectiveHorzBorder > 0
    /\ call.align = "right"
    /\ BitmapMirrored /\ ~TextMirrored

\* C7 (as stated): the two records are mirror images only when the surface width is
\* twice the inside offset.
C7_MirrorOnlyAtTwiceInside ==
    (MirrorPair /\ BitmapMirrored /\ TextMirrored) =>
        \/ call.scope.bitmapSize.width = 2 * prev.geometry.bitmap.xInside
        \/ call.scope.bitmapSize.width = 2 * result.geometry.bitmap.xInside

----------------------------------------------------------------------------
(* Properties of repeated draw calls (SpecIdem) *)

\* the last draw call had the arguments and the data of the draw call kept in prev
SameDraw ==
    /\ prev.kind = "draw" /\ call.fn = "draw"
    /\ prev.call = call
    /\ prev.data = _data /\ prev.commonData = _commonData

\* C8: two draw calls with the same arguments on the same data give the same
\* geometry record and the same surface calls, whatever icon colours the draw
\* calls before them were given.
C8_DrawDeterministic ==
    SameDraw => prev.result = result /\ prev.ops = ctx.ops

\* two equal draw calls without icon colour, the earlier of them made right after a
\* draw call with an icon colour, which the field still held
C8_Witness ==
    /\ SameDraw
    /\ result.kind = "geometry"
    /\ call.iconColor = ""
    /\ prev.iconColorBefore # ""
    /\ \E i \in DOMAIN ctx.ops : ctx.ops[i].op = "fillText" /\ ctx.ops[i].s = _data.text

====
